---- MODULE Spec2Model ----
(***************************************************************************)
(* unity-http-server: the GCS proxy handler (src/src/gcs-handler.ts) and   *)
(* the server wiring around it (src/src/server.ts).                        *)
(*                                                                         *)
(* Strings are sequences of one-character strings, so that the string      *)
(* operations of the code (match, substring, endsWith, includes, extname,  *)
(* toLowerCase) are computed character by character.                       *)
(***************************************************************************)
EXTENDS Naturals, Sequences, FiniteSets

VARIABLES
    buildPath,   \* server.ts: config.buildPath
    isGcsPath,   \* server.ts: isGcsPath
    gcsConfig,   \* server.ts: gcsConfig, the result of GcsHandler.parseGcsPath
    phase,       \* server.ts: where the start-up script is
    prefix,      \* gcs-handler.ts: GcsHandler.prefix
    url,         \* one request's req.url, for the key resolution on its own
    filePath,    \* gcs-handler.ts: filePath of that request
    store,       \* the bucket: object key -> stored version (NoObject when absent)
    writes,      \* number of overwrites and deletions other clients of the bucket made
    alive,       \* the node process is running
    conn,        \* the requests of the GCS proxy middleware, one per connection
    lreq,        \* local mode: req.url of the request in the middleware chain
    lres,        \* local mode: the headers res carries
    lpc          \* local mode: the middleware the request is at

vars == <<buildPath, isGcsPath, gcsConfig, phase, prefix, url, filePath,
          store, writes, alive, conn, lreq, lres, lpc>>

startupVars == <<buildPath, isGcsPath, gcsConfig, phase>>
keyVars == <<prefix, url, filePath>>
remoteVars == <<store, writes, alive, conn>>
localVars == <<lreq, lres, lpc>>
\* what the request handling of remote mode leaves alone
otherVars == <<startupVars, keyVars, localVars>>

-----------------------------------------------------------------------------
\* Strings

\* JavaScript's undefined (a header or metadata field that is not there)
Undefined == "<undefined>"

\* the strings made of at most n fragments of F
RECURSIVE Concats(_, _)
Concats(F, n) ==
    IF n = 0 THEN {<<>>}
    ELSE LET shorter == Concats(F, n - 1)
         IN shorter \cup {s \o f : s \in shorter, f \in F}

\* String.prototype.startsWith
StartsWith(s, p) ==
    /\ Len(s) >= Len(p)
    /\ SubSeq(s, 1, Len(p)) = p

\* String.prototype.endsWith
EndsWith(s, p) ==
    /\ Len(s) >= Len(p)
    /\ SubSeq(s, Len(s) - Len(p) + 1, Len(s)) = p

\* String.prototype.includes
Includes(s, p) ==
    \E i \in 1..(Len(s) + 1) :
        /\ i + Len(p) - 1 <= Len(s)
        /\ SubSeq(s, i, i + Len(p) - 1) = p

\* String.prototype.substring(1)
Substring1(s) == SubSeq(s, 2, Len(s))

\* String.prototype.toLowerCase, on the letters the model's strings use
LowerChar(c) ==
    CASE c = "J" -> "j"
      [] c = "S" -> "s"
      [] c = "G" -> "g"
      [] c = "Z" -> "z"
      [] OTHER -> c

ToLowerCase(s) == [i \in 1..Len(s) |-> LowerChar(s[i])]

Slash == <<"/">>
IndexHtml == <<"i", "n", "d", "e", "x", ".", "h", "t", "m", "l">>
GsScheme == <<"g", "s", ":", "/", "/">>

-----------------------------------------------------------------------------
\* GcsHandler.parseGcsPath: the match of gcsPath against the pattern
\* gs:// at the start, a bucket of one or more non-slash characters, an optional
\* slash, and the rest of the line as the prefix

NullConfig == [isNull |-> TRUE, bucketName |-> <<>>, prefix |-> <<>>]

\* the longest run of characters of s from position i on that are not in stop
RECURSIVE RunEnd(_, _, _)
RunEnd(s, i, stop) ==
    IF i <= Len(s) /\ s[i] \notin stop THEN RunEnd(s, i + 1, stop) ELSE i

ParseGcsPath(gcsPath) ==
    IF ~StartsWith(gcsPath, GsScheme) THEN NullConfig       \* ^gs:\/\/
    ELSE LET b0 == Len(GsScheme) + 1
             b1 == RunEnd(gcsPath, b0, {"/"})                \* ([^\/]+), greedy
             p0 == IF b1 <= Len(gcsPath) /\ gcsPath[b1] = "/"
                   THEN b1 + 1 ELSE b1                       \* \/?
             p1 == RunEnd(gcsPath, p0, {"\n"})               \* the rest, up to a line break
         IN IF b1 = b0 THEN NullConfig                       \* [^\/]+ needs one
            ELSE [isNull |-> FALSE,
                  bucketName |-> SubSeq(gcsPath, b0, b1 - 1),
                  prefix |-> SubSeq(gcsPath, p0, p1 - 1)]    \* gcsMatch[2] || ''

-----------------------------------------------------------------------------
\* GcsHandler.handleRequest: the object key of a request

\* the bugged variant: the separator is added whatever the prefix ends with
ResolveKeyAlwaysSlash(pfx, u) ==
    LET fp == IF u = Slash THEN IndexHtml ELSE Substring1(u)
    IN IF pfx # <<>> THEN pfx \o Slash \o fp ELSE fp

ResolveKey(pfx, u) ==
    LET fp == IF u = Slash THEN IndexHtml ELSE Substring1(u)
    IN IF pfx # <<>>
       THEN pfx \o (IF EndsWith(pfx, Slash) THEN <<>> ELSE Slash) \o fp
       ELSE fp

-----------------------------------------------------------------------------
\* path.extname of node's posix path module, as server.ts calls it on req.url.
\* Positions are zero-based as in the library; the character at position i is
\* s[i + 1].

ExtnameStart == [startDot |-> 0, hasDot |-> FALSE,
                 startPart |-> 0,
                 end |-> 0, hasEnd |-> FALSE,
                 matchedSlash |-> TRUE, preDotState |-> "zero"]

\* the scan from the last character to the first, stopping at the slash that
\* precedes the last segment
RECURSIVE ExtnameScan(_, _, _)
ExtnameScan(s, n, st) ==
    IF n = 0 THEN st
    ELSE LET i == n - 1
             c == s[n]
         IN IF c = "/"
            THEN IF ~st.matchedSlash
                 THEN [st EXCEPT !.startPart = i + 1]
                 ELSE ExtnameScan(s, n - 1, st)
            ELSE LET st1 == IF ~st.hasEnd
                            THEN [st EXCEPT !.matchedSlash = FALSE,
                                            !.end = i + 1, !.hasEnd = TRUE]
                            ELSE st
                     st2 == IF c = "."
                            THEN IF ~st1.hasDot
                                 THEN [st1 EXCEPT !.startDot = i, !.hasDot = TRUE]
                                 ELSE [st1 EXCEPT !.preDotState = "dot"]
                            ELSE IF st1.hasDot
                                 THEN [st1 EXCEPT !.preDotState = "char"]
                                 ELSE st1
                 IN ExtnameScan(s, n - 1, st2)

Extname(s) ==
    LET st == ExtnameScan(s, Len(s), ExtnameStart)
    IN IF \/ ~st.hasDot
          \/ ~st.hasEnd
          \/ st.preDotState = "zero"
          \/ /\ st.preDotState = "dot"
             /\ st.startDot + 1 = st.end
             /\ st.startDot = st.startPart + 1
       THEN <<>>
       ELSE SubSeq(s, st.startDot + 1, st.end)

-----------------------------------------------------------------------------
\* server.ts: the header middleware of local mode

Str(w) ==
    CASE w = ".wasm" -> <<".", "w", "a", "s", "m">>
      [] w = ".js" -> <<".", "j", "s">>
      [] w = ".JS" -> <<".", "J", "S">>
      [] w = ".gz" -> <<".", "g", "z">>
      [] w = ".br" -> <<".", "b", "r">>
      [] w = ".data" -> <<".", "d", "a", "t", "a">>
      [] w = ".unityweb" -> <<".", "u", "n", "i", "t", "y", "w", "e", "b">>
      [] w = "." -> <<".">>

\* the bugged variant: .js. is looked for before .wasm.
GetContentTypeJsFirst(u) ==
    IF Includes(u, Str(".js") \o Str(".")) THEN "application/javascript"
    ELSE IF Includes(u, Str(".wasm") \o Str(".")) THEN "application/wasm"
    ELSE IF Includes(u, Str(".data") \o Str(".")) THEN "application/octet-stream"
    ELSE "application/octet-stream"

GetContentTypeForCompressedFile(u) ==
    IF Includes(u, Str(".wasm") \o Str(".")) THEN "application/wasm"
    ELSE IF Includes(u, Str(".js") \o Str(".")) THEN "application/javascript"
    ELSE IF Includes(u, Str(".data") \o Str(".")) THEN "application/octet-stream"
    ELSE "application/octet-stream"

NoHeaders == [ContentType |-> Undefined, ContentEncoding |-> Undefined]

\* the switch on the lower-cased extension: the headers res carries afterwards
SetUnityHeaders(res, u) ==
    LET ext == ToLowerCase(Extname(u))
    IN CASE ext = Str(".wasm") -> [res EXCEPT !.ContentType = "application/wasm"]
         [] ext = Str(".js") -> [res EXCEPT !.ContentType = "application/javascript"]
         [] ext = Str(".gz") ->
                [res EXCEPT !.ContentEncoding = "gzip",
                            !.ContentType = GetContentTypeForCompressedFile(u)]
         [] ext = Str(".br") ->
                [res EXCEPT !.ContentEncoding = "br",
                            !.ContentType = GetContentTypeForCompressedFile(u)]
         [] ext = Str(".data") -> [res EXCEPT !.ContentType = "application/octet-stream"]
         [] ext = Str(".unityweb") ->
                [res EXCEPT !.ContentType = "application/octet-stream"]
         [] OTHER -> res

-----------------------------------------------------------------------------
\* The bucket and the requests of remote mode

MaxWrites == 2     \* overwrites and deletions by other clients of the bucket
MaxChunks == 1     \* chunks of an object's byte stream

Conns == {"c1", "c2"}

NoObject == "absent"
Versions == {"v1", "v2", "v3"}

\* what file.getMetadata() answers for each stored version
Metadata(v) ==
    CASE v = "v1" -> [etag |-> "abc", contentType |-> "application/javascript",
                      contentEncoding |-> "gzip"]
      [] v = "v2" -> [etag |-> "xyz", contentType |-> "application/wasm",
                      contentEncoding |-> Undefined]
      [] v = "v3" -> [etag |-> Undefined, contentType |-> Undefined,
                      contentEncoding |-> "br"]

\* the encoding of the bytes a read stream yields: the stored one, unless the
\* client library is left to decompress
StreamEncoding(v, decompress) ==
    IF decompress THEN Undefined ELSE Metadata(v).contentEncoding

RemoteUrls == {Slash, <<"/", "a">>}
RemotePrefix == <<"p">>
IfNoneMatchValues == {Undefined, "", "abc"}

\* truthiness of a string or undefined, as the if statements of the handler test it
Truthy(x) == x # Undefined /\ x # ""

NoResHeaders == [ETag |-> Undefined, ContentType |-> Undefined,
                 ContentEncoding |-> Undefined, CacheControl |-> Undefined]

\* a connection no request has arrived on; res.statusCode is 200 until set
IdleConn == [pc |-> "idle", url |-> <<>>, ifNoneMatch |-> Undefined,
             filePath |-> <<>>,
             existsCalls |-> 0, metadataCalls |-> 0, streamOpens |-> 0,
             exists |-> "none", metaResult |-> "none", metadata |-> NoObject,
             statusCode |-> 200, headers |-> NoResHeaders, headersSent |-> FALSE,
             body |-> "none", bodyKey |-> <<>>,
             decompress |-> FALSE, streamVersion |-> NoObject, sent |-> 0,
             streamError |-> FALSE, socket |-> "open", logged |-> FALSE]

\* lines 39-45: the key is resolved and file.exists() is called
OnRequest(r, pfx, u, inm) ==
    [r EXCEPT !.pc = "exists", !.url = u, !.ifNoneMatch = inm,
              !.filePath = ResolveKey(pfx, u),
              !.existsCalls = @ + 1]

\* lines 48-52: res.status(404).send(...) with the key in the body
SendNotFound(r) ==
    [r EXCEPT !.pc = "done", !.statusCode = 404, !.headersSent = TRUE,
              !.body = "File not found in GCS", !.bodyKey = r.filePath,
              !.socket = "ended"]

\* the bugged variant: the catch block answers as the absent branch does
SendErrorAsNotFound(r) ==
    [r EXCEPT !.pc = "done", !.logged = TRUE,
              !.statusCode = 404, !.headersSent = TRUE,
              !.body = "File not found in GCS", !.bodyKey = r.filePath,
              !.socket = "ended"]

\* lines 82-85: the catch block
SendError(r) ==
    [r EXCEPT !.pc = "done", !.logged = TRUE,
              !.statusCode = 500, !.headersSent = TRUE,
              !.body = "Internal Server Error",
              !.socket = "ended"]

\* the bugged variant: the absent branch does not return
OnExistsNoReturn(r, found) ==
    IF found
    THEN [r EXCEPT !.exists = "true", !.pc = "metadata", !.metadataCalls = @ + 1]
    ELSE [SendNotFound([r EXCEPT !.exists = "false"])
              EXCEPT !.pc = "metadata", !.metadataCalls = @ + 1]

\* lines 45-56: file.exists() has answered
OnExists(r, found) ==
    IF found
    THEN [r EXCEPT !.exists = "true", !.pc = "metadata", !.metadataCalls = @ + 1]
    ELSE SendNotFound([r EXCEPT !.exists = "false"])

\* the bugged variant: the validator is compared without the presence tests
ConditionalMatchBare(clientETag, etag) == clientETag = etag

\* line 60: clientETag && metadata.etag && clientETag === metadata.etag
ConditionalMatch(clientETag, etag) ==
    Truthy(clientETag) /\ Truthy(etag) /\ clientETag = etag

\* the bugged variant: the cache directive is left out
DeliveryHeadersNoCacheControl(h, md) ==
    [h EXCEPT !.ETag = IF Truthy(md.etag) THEN md.etag ELSE @,
              !.ContentType = IF Truthy(md.contentType) THEN md.contentType ELSE @,
              !.ContentEncoding =
                  IF Truthy(md.contentEncoding) THEN md.contentEncoding ELSE @]

\* lines 66-78: the headers set from the metadata
DeliveryHeaders(h, md) ==
    [h EXCEPT !.ETag = IF Truthy(md.etag) THEN md.etag ELSE @,
              !.ContentType = IF Truthy(md.contentType) THEN md.contentType ELSE @,
              !.ContentEncoding =
                  IF Truthy(md.contentEncoding) THEN md.contentEncoding ELSE @,
              !.CacheControl = "no-cache"]

\* lines 56-81: file.getMetadata() has answered with version v's metadata
OnMetadata(r, v) ==
    LET md == Metadata(v)
        r1 == [r EXCEPT !.metaResult = "ok", !.metadata = v]
    IN IF ConditionalMatch(r.ifNoneMatch, md.etag)
       THEN [r1 EXCEPT !.pc = "done", !.statusCode = 304, !.headersSent = TRUE,
                       !.socket = "ended"]
       ELSE [r1 EXCEPT !.pc = "piping",
                       !.headers = DeliveryHeaders(@, md),
                       !.streamOpens = @ + 1,
                       !.decompress = FALSE]

-----------------------------------------------------------------------------
\* Remote mode: the actions

Keys == {ResolveKey(RemotePrefix, u) : u \in RemoteUrls}

InitRemote ==
    /\ prefix = RemotePrefix
    /\ store \in [Keys -> Versions \cup {NoObject}]
    /\ writes = 0
    /\ alive = TRUE
    /\ conn = [c \in Conns |-> IdleConn]

\* another client of the bucket uploads version v under key k
Overwrite(k, v) ==
    /\ alive
    /\ writes < MaxWrites
    /\ store[k] # v
    /\ store' = [store EXCEPT ![k] = v]
    /\ writes' = writes + 1
    /\ UNCHANGED <<alive, conn>>
    /\ UNCHANGED otherVars

\* another client of the bucket deletes the object under key k
Delete(k) ==
    /\ alive
    /\ writes < MaxWrites
    /\ store[k] # NoObject
    /\ store' = [store EXCEPT ![k] = NoObject]
    /\ writes' = writes + 1
    /\ UNCHANGED <<alive, conn>>
    /\ UNCHANGED otherVars

\* server.ts 170-172 and handleRequest up to its first await
Receive(c, u, inm) ==
    /\ alive
    /\ conn[c].pc = "idle"
    /\ conn' = [conn EXCEPT ![c] = OnRequest(@, prefix, u, inm)]
    /\ UNCHANGED <<store, writes, alive>>
    /\ UNCHANGED otherVars

\* file.exists() resolves: the handler runs to its next await or to its return
ExistsReturns(c) ==
    /\ alive
    /\ conn[c].pc = "exists"
    /\ conn' = [conn EXCEPT ![c] = OnExists(@, store[conn[c].filePath] # NoObject)]
    /\ UNCHANGED <<store, writes, alive>>
    /\ UNCHANGED otherVars

\* file.exists() rejects (network, auth, quota): the catch block runs
ExistsFails(c) ==
    /\ alive
    /\ conn[c].pc = "exists"
    /\ conn' = [conn EXCEPT ![c] = SendError([@ EXCEPT !.exists = "error"])]
    /\ UNCHANGED <<store, writes, alive>>
    /\ UNCHANGED otherVars

\* file.getMetadata() resolves: the handler runs to its end
MetadataReturns(c) ==
    /\ alive
    /\ conn[c].pc = "metadata"
    /\ store[conn[c].filePath] # NoObject
    /\ conn' = [conn EXCEPT ![c] = OnMetadata(@, store[conn[c].filePath])]
    /\ UNCHANGED <<store, writes, alive>>
    /\ UNCHANGED otherVars

\* file.getMetadata() rejects, because the backend cannot be reached or because
\* the object is no longer there: the catch block runs
MetadataFails(c) ==
    /\ alive
    /\ conn[c].pc = "metadata"
    /\ conn' = [conn EXCEPT ![c] =
                   SendError([@ EXCEPT !.metaResult =
                       IF store[conn[c].filePath] = NoObject
                       THEN "notfound" ELSE "unavailable"])]
    /\ UNCHANGED <<store, writes, alive>>
    /\ UNCHANGED otherVars

\* the read stream yields a chunk and pipe() writes it to res; the first chunk
\* is of the version stored when the stream's request reaches the bucket, and
\* the first write sends the status line and the headers
StreamData(c) ==
    /\ alive
    /\ conn[c].pc = "piping"
    /\ conn[c].sent < MaxChunks
    /\ conn[c].sent = 0 => store[conn[c].filePath] # NoObject
    /\ conn' = [conn EXCEPT ![c] =
                   [@ EXCEPT !.streamVersion =
                                 IF conn[c].sent = 0
                                 THEN store[conn[c].filePath] ELSE @,
                             !.sent = @ + 1,
                             !.headersSent = TRUE]]
    /\ UNCHANGED <<store, writes, alive>>
    /\ UNCHANGED otherVars

\* the read stream ends and pipe() ends res
StreamEnd(c) ==
    /\ alive
    /\ conn[c].pc = "piping"
    /\ conn[c].sent > 0
    /\ conn' = [conn EXCEPT ![c] = [@ EXCEPT !.pc = "done", !.socket = "ended"]]
    /\ UNCHANGED <<store, writes, alive>>
    /\ UNCHANGED otherVars

\* the read stream emits 'error' (the object is gone, or the read breaks).
\* handleRequest has returned, so its catch block is out of reach, and line 81
\* registered no 'error' listener on the stream: the event is thrown as an
\* uncaught exception and the process exits, every open socket with it
StreamError(c) ==
    /\ alive
    /\ conn[c].pc = "piping"
    /\ alive' = FALSE
    /\ conn' = [d \in Conns |->
                   LET r == IF d = c
                            THEN [conn[d] EXCEPT !.streamError = TRUE]
                            ELSE conn[d]
                   IN IF r.pc \notin {"idle", "done"}
                      THEN [r EXCEPT !.socket = "reset"]
                      ELSE r]
    /\ UNCHANGED <<store, writes>>
    /\ UNCHANGED otherVars

\* the variables of the other parts of the program, at rest
StartupIdle ==
    /\ buildPath = <<>>
    /\ isGcsPath = FALSE
    /\ gcsConfig = NullConfig
    /\ phase = "listening"

KeyIdle ==
    /\ url = <<>>
    /\ filePath = <<>>

RemoteIdle ==
    /\ store = [k \in Keys |-> NoObject]
    /\ writes = 0
    /\ alive = TRUE
    /\ conn = [c \in Conns |-> IdleConn]

LocalIdle ==
    /\ lreq = <<>>
    /\ lres = NoHeaders
    /\ lpc = "none"

Init ==
    /\ InitRemote
    /\ StartupIdle
    /\ KeyIdle
    /\ LocalIdle

Next ==
    \/ \E k \in Keys, v \in Versions : Overwrite(k, v)
    \/ \E k \in Keys : Delete(k)
    \/ \E c \in Conns, u \in RemoteUrls, inm \in IfNoneMatchValues : Receive(c, u, inm)
    \/ \E c \in Conns : ExistsReturns(c)
    \/ \E c \in Conns : ExistsFails(c)
    \/ \E c \in Conns : MetadataReturns(c)
    \/ \E c \in Conns : MetadataFails(c)
    \/ \E c \in Conns : StreamData(c)
    \/ \E c \in Conns : StreamEnd(c)
    \/ \E c \in Conns : StreamError(c)

Spec == Init /\ [][Next]_vars

-----------------------------------------------------------------------------
\* Start-up (server.ts 73-88 and 149-154) and GcsHandler.parseGcsPath

MaxLocatorFragments == 5

LocatorFragments ==
    {GsScheme, <<"g", "s", ":">>, Slash, <<"b">>, <<"p">>}

InitStartup ==
    /\ buildPath \in Concats(LocatorFragments, MaxLocatorFragments)
    /\ isGcsPath = FALSE
    /\ gcsConfig = NullConfig
    /\ phase = "start"
    /\ prefix = <<>>
    /\ KeyIdle
    /\ RemoteIdle
    /\ LocalIdle

\* a direct call of the exported static method on any string
ParseGcsPathCall ==
    /\ phase = "start"
    /\ gcsConfig' = ParseGcsPath(buildPath)
    /\ phase' = "parsed"
    /\ UNCHANGED <<buildPath, isGcsPath, prefix, url, filePath, remoteVars, localVars>>

\* server.ts 76: config.buildPath.startsWith('gs://')
CheckGcsPath ==
    /\ phase = "start"
    /\ isGcsPath' = StartsWith(buildPath, GsScheme)
    /\ phase' = "checked"
    /\ UNCHANGED <<buildPath, gcsConfig, prefix, url, filePath, remoteVars, localVars>>

\* server.ts 79-88: the handler is built from the parsed locator, or the process
\* exits with status 1
SetupGcsHandler ==
    /\ phase = "checked"
    /\ isGcsPath
    /\ gcsConfig' = ParseGcsPath(buildPath)
    /\ IF gcsConfig'.isNull
       THEN /\ phase' = "exit"
            /\ alive' = FALSE
            /\ UNCHANGED prefix
       ELSE /\ phase' = "gcs"
            /\ prefix' = gcsConfig'.prefix
            /\ UNCHANGED alive
    /\ UNCHANGED <<buildPath, isGcsPath, url, filePath, store, writes, conn, localVars>>

\* server.ts 149-154: fs.existsSync(config.buildPath) decides for a local path
CheckBuildDir(dirExists) ==
    /\ phase = "checked"
    /\ ~isGcsPath
    /\ phase' = IF dirExists THEN "local" ELSE "exit"
    /\ alive' = dirExists
    /\ UNCHANGED <<buildPath, isGcsPath, gcsConfig, prefix, url, filePath,
                   store, writes, conn, localVars>>

NextStartup ==
    \/ ParseGcsPathCall
    \/ CheckGcsPath
    \/ SetupGcsHandler
    \/ \E dirExists \in BOOLEAN : CheckBuildDir(dirExists)

SpecStartup == InitStartup /\ [][NextStartup]_vars

\* parseGcsPath has returned and gcsConfig holds its result
Parsed == phase \in {"parsed", "gcs"} \/ (phase = "exit" /\ isGcsPath)

-----------------------------------------------------------------------------
\* The key resolution of handleRequest on its own, over prefixes and values of
\* req.url (the path and, when the request has one, its query string)

MaxPrefixFragments == 3
MaxUrlFragments == 2

PrefixFragments == {<<"p">>, <<"q">>, Slash}
UrlFragments == {<<"a">>, <<".">>, <<"?">>, Slash}

InitKey ==
    /\ prefix \in Concats(PrefixFragments, MaxPrefixFragments)
    /\ url \in {Slash \o t : t \in Concats(UrlFragments, MaxUrlFragments)}
    /\ filePath = <<>>
    /\ buildPath = <<>>
    /\ isGcsPath = TRUE
    /\ gcsConfig = NullConfig
    /\ phase = "request"
    /\ RemoteIdle
    /\ LocalIdle

\* handleRequest 39-42
ResolveRequest ==
    /\ phase = "request"
    /\ filePath' = ResolveKey(prefix, url)
    /\ phase' = "resolved"
    /\ UNCHANGED <<buildPath, isGcsPath, gcsConfig, prefix, url, remoteVars, localVars>>

NextKey == ResolveRequest

SpecKey == InitKey /\ [][NextKey]_vars

-----------------------------------------------------------------------------
\* The middleware chain in front of the responder (server.ts 113-192)

MaxLocalFragments == 3

LocalFragments ==
    {<<"a">>, <<"?">>, Slash, Str("."), Str(".wasm"), Str(".js"), Str(".JS"),
     Str(".gz"), Str(".br"), Str(".data"), Str(".unityweb")}

InitLocal ==
    /\ isGcsPath \in BOOLEAN
    /\ lreq \in {Slash \o t : t \in Concats(LocalFragments, MaxLocalFragments)}
    /\ lres = NoHeaders
    /\ lpc = "headers"
    /\ buildPath = <<>>
    /\ gcsConfig = NullConfig
    /\ phase = "listening"
    /\ prefix = <<>>
    /\ KeyIdle
    /\ RemoteIdle

\* server.ts 113-147: the header middleware
HeaderMiddleware ==
    /\ lpc = "headers"
    /\ lres' = IF isGcsPath THEN lres ELSE SetUnityHeaders(lres, lreq)
    /\ lpc' = "logging"
    /\ UNCHANGED <<lreq, startupVars, keyVars, remoteVars>>

\* server.ts 157-165: the logging middleware registers its listener and passes on
LoggingMiddleware ==
    /\ lpc = "logging"
    /\ lpc' = IF isGcsPath THEN "proxy" ELSE "static"
    /\ UNCHANGED <<lreq, lres, startupVars, keyVars, remoteVars>>

\* server.ts 175: express.static answers with the file when there is one, and
\* gives it a Content-Type of its own only when res carries none yet
StaticResponder(fileFound) ==
    /\ lpc = "static"
    /\ lpc' = IF fileFound THEN "served" ELSE "fallthrough"
    /\ lres' = IF fileFound /\ lres.ContentType = Undefined
               THEN [lres EXCEPT !.ContentType = "by express.static"]
               ELSE lres
    /\ UNCHANGED <<lreq, startupVars, keyVars, remoteVars>>

NextLocal ==
    \/ HeaderMiddleware
    \/ LoggingMiddleware
    \/ \E fileFound \in BOOLEAN : StaticResponder(fileFound)

SpecLocal == InitLocal /\ [][NextLocal]_vars

-----------------------------------------------------------------------------
\* Properties

\* C1: in remote mode an absent key is answered 404 with the resolved key in the
\* body, and a failure of the existence check or of the metadata fetch to reach
\* the backend is answered 500, never 404.
C1_AbsentIs404UnavailableIs500 ==
    \A c \in Conns :
        LET r == conn[c]
        IN /\ r.exists = "false" =>
                  /\ r.headersSent
                  /\ r.statusCode = 404
                  /\ r.body = "File not found in GCS"
                  /\ r.bodyKey = ResolveKey(prefix, r.url)
           /\ (r.exists = "error" \/ r.metaResult = "unavailable") =>
                  /\ r.headersSent
                  /\ r.statusCode = 500

\* C1 witness: one request found its key absent and was answered 404, another
\* lost the backend during the metadata fetch and was answered 500
C1_Witness ==
    \E c, d \in Conns :
        /\ conn[c].exists = "false" /\ conn[c].statusCode = 404
        /\ conn[d].metaResult = "unavailable" /\ conn[d].statusCode = 500

\* C2: once the metadata of an existing object is fetched, the answer is 304
\* exactly when If-None-Match is present, non-empty and equal to the ETag; an
\* object without ETag never gives 304, and a differing validator gives the
\* full delivery.
C2_NotModifiedIffValidatorEqualsETag ==
    \A c \in Conns :
        LET r == conn[c]
            etag == Metadata(r.metadata).etag
        IN /\ r.statusCode = 304 => r.metaResult = "ok"
           /\ r.metaResult = "ok" =>
                  /\ r.statusCode = 304 <=>
                         /\ r.ifNoneMatch # Undefined
                         /\ r.ifNoneMatch # ""
                         /\ etag # Undefined
                         /\ r.ifNoneMatch = etag
                  /\ etag = Undefined => r.statusCode # 304
                  /\ (r.ifNoneMatch # Undefined /\ r.ifNoneMatch # etag) =>
                         /\ r.streamOpens = 1
                         /\ r.statusCode = 200
                         /\ r.headers.ETag = etag

\* C2 witness: a 304 for the equal validator, and a full delivery of an object
\* whose ETag differs from the validator sent
C2_Witness ==
    \E c, d \in Conns :
        /\ conn[c].statusCode = 304 /\ conn[c].ifNoneMatch = "abc"
        /\ conn[d].metaResult = "ok" /\ conn[d].ifNoneMatch = "abc"
        /\ Metadata(conn[d].metadata).etag = "xyz"
        /\ conn[d].sent > 0

\* C3: a full delivery carries ETag, Content-Type and Content-Encoding exactly
\* when the fetched metadata has them, with their values, always carries
\* Cache-Control: no-cache, and streams the stored bytes undecompressed.
C3_DeliveryHeadersFromMetadata ==
    \A c \in Conns :
        LET r == conn[c]
            md == Metadata(r.metadata)
        IN r.streamOpens > 0 =>
               /\ r.headers.ETag = md.etag
               /\ r.headers.ContentType = md.contentType
               /\ r.headers.ContentEncoding = md.contentEncoding
               /\ r.headers.CacheControl = "no-cache"
               /\ r.decompress = FALSE
               /\ r.statusCode = 200
               /\ r.sent > 0 =>
                      StreamEncoding(r.streamVersion, r.decompress)
                          = Metadata(r.streamVersion).contentEncoding

\* C3 witness: a gzip object with all three fields and an object with neither
\* ETag nor Content-Type have both been delivered
C3_Witness ==
    \E c, d \in Conns :
        /\ conn[c].sent > 0 /\ conn[c].metadata = "v1"
        /\ conn[c].headers.ContentEncoding = "gzip"
        /\ conn[d].sent > 0 /\ conn[d].metadata = "v3"
        /\ conn[d].headers.ETag = Undefined

\* C4: when the byte stream fails after the headers were sent, the handler
\* ends the client's connection and logs the failure, leaving the status and
\* the body as they were.
C4_MidStreamFailureAbortsAndLogs ==
    \A c \in Conns :
        LET r == conn[c]
        IN (r.streamError /\ r.headersSent) =>
               /\ r.socket = "destroyed"
               /\ r.logged
               /\ r.statusCode = 200
               /\ r.body = "none"

\* C5: no failure of the existence check, the metadata fetch or the byte
\* stream ends the process: the error is caught and logged at the request
\* boundary and the server goes on running.
C5_RequestErrorsNeverStopTheServer ==
    \A c \in Conns :
        LET r == conn[c]
        IN (r.exists = "error" \/ r.metaResult \in {"unavailable", "notfound"}
                \/ r.streamError) =>
               /\ alive
               /\ r.logged

\* C9: per request one existence check comes first, the metadata fetch is issued
\* at most once and only after the check answered true, the headers are set and
\* the stream opened at most once and only after the metadata came back without
\* a conditional match, and a 404 or 304 sets no object header and opens no stream.
C9_StepsSequentialAndGated ==
    \A c \in Conns :
        LET r == conn[c]
            etag == Metadata(r.metadata).etag
        IN /\ r.pc = "idle" =>
                  r.existsCalls = 0 /\ r.metadataCalls = 0 /\ r.streamOpens = 0
           /\ r.pc # "idle" => r.existsCalls = 1
           /\ r.pc = "exists" => r.metadataCalls = 0
           /\ r.metadataCalls <= 1
           /\ r.metadataCalls = 1 => r.exists = "true"
           /\ r.pc = "metadata" => r.streamOpens = 0 /\ r.headers = NoResHeaders
           /\ r.streamOpens <= 1
           /\ r.streamOpens = 1 =>
                  /\ r.metadataCalls = 1
                  /\ r.metaResult = "ok"
                  /\ ~(r.ifNoneMatch \notin {Undefined, ""} /\ r.ifNoneMatch = etag)
           /\ r.headers # NoResHeaders => r.streamOpens = 1
           /\ r.sent > 0 => r.streamOpens = 1
           /\ r.statusCode \in {404, 304} =>
                  /\ r.pc = "done"
                  /\ r.headers = NoResHeaders
                  /\ r.streamOpens = 0
                  /\ r.sent = 0

\* C9 witness: one request ended 304 after both round trips, another 404 after one
C9_Witness ==
    \E c, d \in Conns :
        /\ conn[c].statusCode = 304 /\ conn[c].metadataCalls = 1
        /\ conn[d].statusCode = 404 /\ conn[d].metadataCalls = 0
        /\ conn[d].existsCalls = 1

\* C10: whatever other clients of the bucket do between a request's steps, the
\* headers of a full delivery are those of the version whose bytes are streamed,
\* and an object that is absent when it is asked for is answered 404.
C10_ConsistentUnderConcurrentWrites ==
    \A c \in Conns :
        LET r == conn[c]
        IN /\ r.sent > 0 =>
                  /\ r.headers.ETag = Metadata(r.streamVersion).etag
                  /\ r.headers.ContentEncoding
                         = Metadata(r.streamVersion).contentEncoding
           /\ r.metaResult = "notfound" => r.statusCode = 404

\* a locator with the scheme and a bucket
HasSchemeAndBucket(s) ==
    /\ StartsWith(s, GsScheme)
    /\ Len(s) > Len(GsScheme)
    /\ s[Len(GsScheme) + 1] # "/"

\* C7: parseGcsPath returns null for a string without scheme:// and a bucket,
\* returns bucket b and prefix p for scheme://b/p, and never returns a prefix
\* with a leading slash.
C7_ParseLocator ==
    Parsed =>
        /\ ~HasSchemeAndBucket(buildPath) => gcsConfig.isNull
        /\ \A i \in 1..Len(buildPath) :
               (/\ HasSchemeAndBucket(buildPath)
                /\ buildPath[i] = "/"
                /\ i > Len(GsScheme)
                /\ \A j \in (Len(GsScheme) + 1)..(i - 1) : buildPath[j] # "/") =>
                   gcsConfig = [isNull |-> FALSE,
                                bucketName |-> SubSeq(buildPath, Len(GsScheme) + 1, i - 1),
                                prefix |-> SubSeq(buildPath, i + 1, Len(buildPath))]
        /\ ~gcsConfig.isNull => ~StartsWith(gcsConfig.prefix, Slash)

ExpectedHeaders(remote, u) ==
    LET ext == ToLowerCase(Extname(u))
        secondary ==
            IF Includes(u, <<".", "w", "a", "s", "m", ".">>) THEN "application/wasm"
            ELSE IF Includes(u, <<".", "j", "s", ".">>) THEN "application/javascript"
            ELSE "application/octet-stream"
    IN IF remote THEN NoHeaders
       ELSE IF ext = <<".", "w", "a", "s", "m">>
            THEN [ContentType |-> "application/wasm", ContentEncoding |-> Undefined]
       ELSE IF ext = <<".", "j", "s">>
            THEN [ContentType |-> "application/javascript", ContentEncoding |-> Undefined]
       ELSE IF ext \in {<<".", "d", "a", "t", "a">>,
                        <<".", "u", "n", "i", "t", "y", "w", "e", "b">>}
            THEN [ContentType |-> "application/octet-stream",
                  ContentEncoding |-> Undefined]
       ELSE IF ext = <<".", "g", "z">>
            THEN [ContentType |-> secondary, ContentEncoding |-> "gzip"]
       ELSE IF ext = <<".", "b", "r">>
            THEN [ContentType |-> secondary, ContentEncoding |-> "br"]
       ELSE NoHeaders

====
